---- MODULE Spec2Model ----
(***************************************************************************)
(* Model of the Alchemy MCP server (src/server.ts): the tool descriptor    *)
(* table, the per-tool parameter validators, the CallTool request handler  *)
(* with its catch-all, the subscription registry and the SIGINT teardown.  *)
(***************************************************************************)
EXTENDS Integers, FiniteSets, Sequences, TLC

(***************************************************************************)
(* Bounds of the model.                                                    *)
(***************************************************************************)
\* how many fields of a base argument bag an enumerated bag may change
MaxDev == 1
\* how many backend subscriptions (ws.on calls) a behaviour may create
MaxSubs == 2
\* how many backend queries may be awaited at the same time
MaxInflight == 1
\* how many times the cancel action of one handle may be invoked
MaxCancel == 2

(***************************************************************************)
(* JavaScript values of an argument bag.  A value is a record of its       *)
(* typeof tag and its text; typeof null and typeof [] are both "object".   *)
(***************************************************************************)
Undef == [t |-> "undefined", v |-> ""]
Null == [t |-> "object", v |-> "null"]
Arr == [t |-> "object", v |-> "array"]
Str(x) == [t |-> "string", v |-> x]
Num(x) == [t |-> "number", v |-> x]
Bool(x) == [t |-> "boolean", v |-> x]

Typeof(x) == x.t
IsArray(x) == x = Arr
\* JavaScript truthiness of a value (used by || and ?:)
Truthy(x) ==
  /\ x # Undef
  /\ x # Null
  /\ x # Str("")
  /\ x # Num("0")
  /\ x # Bool("false")

\* args.f : a field that is absent reads as undefined
Get(args, f) == IF f \in DOMAIN args THEN args[f] ELSE Undef

\* the strings Math.random().toString(36).substring(7) is drawn from
Ids == {"k3x9", "p0q2"}
\* the subscription types of the subscribe tool's enum, and one outside it
SubscriptionEnum == {"newHeads", "logs", "pendingTransactions", "mined"}
OtherType == "bogus"
\* message strings a backend rejection carries
BackendMsgs == {"rate limited", "timeout"}

GenericValues ==
  {Undef, Null, Arr, Str(""), Str("0xabc"), Num("0"), Num("1"), Bool("true")}

(***************************************************************************)
(* The descriptor table returned by the ListTools handler: for each tool   *)
(* the declared type of each property, the required list and the oneOf     *)
(* alternatives.                                                           *)
(***************************************************************************)
ListedTools ==
  << [name |-> "get_nfts_for_owner",
      props |-> [owner |-> "string", pageKey |-> "string", pageSize |-> "number",
                 contractAddresses |-> "array", withMetadata |-> "boolean"],
      required |-> {"owner"}, oneOf |-> {}],
     [name |-> "get_nft_metadata",
      props |-> [contractAddress |-> "string", tokenId |-> "string",
                 tokenType |-> "string", refreshCache |-> "boolean"],
      required |-> {"contractAddress", "tokenId"}, oneOf |-> {}],
     [name |-> "get_nft_sales",
      props |-> [contractAddress |-> "string", tokenId |-> "string",
                 fromBlock |-> "number", toBlock |-> "number", order |-> "string",
                 marketplace |-> "string", pageKey |-> "string", pageSize |-> "number"],
      required |-> {}, oneOf |-> {}],
     [name |-> "get_contracts_for_owner",
      props |-> [owner |-> "string", pageKey |-> "string", pageSize |-> "number",
                 includeFilters |-> "array", excludeFilters |-> "array"],
      required |-> {"owner"}, oneOf |-> {}],
     [name |-> "get_floor_price",
      props |-> [contractAddress |-> "string"],
      required |-> {"contractAddress"}, oneOf |-> {}],
     [name |-> "get_owners_for_nft",
      props |-> [contractAddress |-> "string", tokenId |-> "string",
                 pageKey |-> "string", pageSize |-> "number"],
      required |-> {"contractAddress", "tokenId"}, oneOf |-> {}],
     [name |-> "get_nfts_for_contract",
      props |-> [contractAddress |-> "string", pageKey |-> "string", pageSize |-> "number",
                 tokenUriTimeoutInMs |-> "number", withMetadata |-> "boolean"],
      required |-> {"contractAddress"}, oneOf |-> {}],
     [name |-> "get_transfers_for_contract",
      props |-> [contractAddress |-> "string", pageKey |-> "string", fromBlock |-> "number",
                 toBlock |-> "number", order |-> "string", tokenType |-> "string"],
      required |-> {"contractAddress"}, oneOf |-> {}],
     [name |-> "get_transfers_for_owner",
      props |-> [owner |-> "string", pageKey |-> "string", fromBlock |-> "number",
                 toBlock |-> "number", order |-> "string", tokenType |-> "string",
                 contractAddresses |-> "array"],
      required |-> {"owner"}, oneOf |-> {}],
     [name |-> "get_token_balances",
      props |-> [address |-> "string", tokenAddresses |-> "array"],
      required |-> {"address"}, oneOf |-> {}],
     [name |-> "get_token_metadata",
      props |-> [contractAddress |-> "string"],
      required |-> {"contractAddress"}, oneOf |-> {}],
     [name |-> "get_tokens_for_owner",
      props |-> [owner |-> "string", pageKey |-> "string", pageSize |-> "number",
                 contractAddresses |-> "array"],
      required |-> {"owner"}, oneOf |-> {}],
     [name |-> "get_asset_transfers",
      props |-> [fromBlock |-> "string", toBlock |-> "string", fromAddress |-> "string",
                 toAddress |-> "string", category |-> "array",
                 contractAddresses |-> "array", maxCount |-> "number",
                 excludeZeroValue |-> "boolean", pageKey |-> "string",
                 withMetadata |-> "boolean"],
      required |-> {}, oneOf |-> {}],
     [name |-> "get_transaction_receipts",
      props |-> [blockHash |-> "string", blockNumber |-> "string"],
      required |-> {}, oneOf |-> {{"blockHash"}, {"blockNumber"}}],
     [name |-> "get_block_number",
      props |-> [x \in {} |-> "string"],
      required |-> {}, oneOf |-> {}],
     [name |-> "get_block_with_transactions",
      props |-> [blockNumber |-> "string", blockHash |-> "string"],
      required |-> {}, oneOf |-> {{"blockNumber"}, {"blockHash"}}],
     [name |-> "get_transaction",
      props |-> [hash |-> "string"],
      required |-> {"hash"}, oneOf |-> {}],
     [name |-> "resolve_ens",
      props |-> [name |-> "string", blockTag |-> "string"],
      required |-> {"name"}, oneOf |-> {}],
     [name |-> "lookup_address",
      props |-> [address |-> "string"],
      required |-> {"address"}, oneOf |-> {}],
     [name |-> "estimate_gas_price",
      props |-> [maxFeePerGas |-> "boolean"],
      required |-> {}, oneOf |-> {}],
     [name |-> "subscribe",
      props |-> [type |-> "string", address |-> "string", topics |-> "array"],
      required |-> {"type"}, oneOf |-> {}],
     [name |-> "unsubscribe",
      props |-> [subscriptionId |-> "string"],
      required |-> {"subscriptionId"}, oneOf |-> {}] >>

ListedNames == {ListedTools[i].name : i \in DOMAIN ListedTools}
Descriptor(name) ==
  ListedTools[CHOOSE i \in DOMAIN ListedTools : ListedTools[i].name = name]

\* a tool name that is in no table
UnknownName == "no_such_tool"

(***************************************************************************)
(* The parameter validators.  The handler receives the argument bag only   *)
(* when request.params.arguments is a (non-null) object, so the first two  *)
(* conjuncts of every validator hold of every bag.                         *)
(***************************************************************************)
IsObjectNotNull(args) == DOMAIN args \subseteq STRING

\* typeof args.f === T
IsType(args, f, T) == Typeof(Get(args, f)) = T
\* args.f === undefined || typeof args.f === T
OptType(args, f, T) == Get(args, f) = Undef \/ Typeof(Get(args, f)) = T
\* args.f === undefined || Array.isArray(args.f)
OptArray(args, f) == Get(args, f) = Undef \/ IsArray(Get(args, f))

isValidGetNftsForOwnerParams(args) ==
  /\ IsObjectNotNull(args)
  /\ IsType(args, "owner", "string")
  /\ OptType(args, "pageKey", "string")
  /\ OptType(args, "pageSize", "number")
  /\ OptArray(args, "contractAddresses")
  /\ OptType(args, "withMetadata", "boolean")

isValidGetNftMetadataParams(args) ==
  /\ IsObjectNotNull(args)
  /\ IsType(args, "contractAddress", "string")
  /\ IsType(args, "tokenId", "string")
  /\ OptType(args, "tokenType", "string")
  /\ OptType(args, "refreshCache", "boolean")

isValidGetTokenBalancesParams(args) ==
  /\ IsObjectNotNull(args)
  /\ IsType(args, "address", "string")
  /\ OptArray(args, "tokenAddresses")

isValidGetAssetTransfersParams(args) ==
  /\ IsObjectNotNull(args)
  /\ OptType(args, "fromBlock", "string")
  /\ OptType(args, "toBlock", "string")
  /\ OptType(args, "fromAddress", "string")
  /\ OptType(args, "toAddress", "string")
  /\ OptArray(args, "category")
  /\ OptArray(args, "contractAddresses")
  /\ OptType(args, "maxCount", "number")
  /\ OptType(args, "excludeZeroValue", "boolean")
  /\ OptType(args, "pageKey", "string")
  /\ OptType(args, "withMetadata", "boolean")

isValidGetNftSalesParams(args) ==
  /\ IsObjectNotNull(args)
  /\ OptType(args, "contractAddress", "string")
  /\ OptType(args, "tokenId", "string")
  /\ OptType(args, "fromBlock", "number")
  /\ OptType(args, "toBlock", "number")
  /\ OptType(args, "order", "string")
  /\ OptType(args, "marketplace", "string")
  /\ OptType(args, "pageKey", "string")
  /\ OptType(args, "pageSize", "number")

isValidGetContractsForOwnerParams(args) ==
  /\ IsObjectNotNull(args)
  /\ IsType(args, "owner", "string")
  /\ OptType(args, "pageKey", "string")
  /\ OptType(args, "pageSize", "number")
  /\ OptArray(args, "includeFilters")
  /\ OptArray(args, "excludeFilters")

isValidGetFloorPriceParams(args) ==
  /\ IsObjectNotNull(args)
  /\ IsType(args, "contractAddress", "string")

isValidGetOwnersForNftParams(args) ==
  /\ IsObjectNotNull(args)
  /\ IsType(args, "contractAddress", "string")
  /\ IsType(args, "tokenId", "string")
  /\ OptType(args, "pageKey", "string")
  /\ OptType(args, "pageSize", "number")

isValidGetTransfersForContractParams(args) ==
  /\ IsObjectNotNull(args)
  /\ IsType(args, "contractAddress", "string")
  /\ OptType(args, "pageKey", "string")
  /\ OptType(args, "fromBlock", "number")
  /\ OptType(args, "toBlock", "number")
  /\ OptType(args, "order", "string")
  /\ OptType(args, "tokenType", "string")

isValidGetTransfersForOwnerParams(args) ==
  /\ IsObjectNotNull(args)
  /\ IsType(args, "owner", "string")
  /\ OptType(args, "pageKey", "string")
  /\ OptType(args, "fromBlock", "number")
  /\ OptType(args, "toBlock", "number")
  /\ OptType(args, "order", "string")
  /\ OptType(args, "tokenType", "string")
  /\ OptArray(args, "contractAddresses")

isValidGetTransactionReceiptsParams(args) ==
  /\ IsObjectNotNull(args)
  /\ (Get(args, "blockHash") # Undef \/ Get(args, "blockNumber") # Undef)
  /\ OptType(args, "blockHash", "string")
  /\ \/ Get(args, "blockNumber") = Undef
     \/ IsType(args, "blockNumber", "string")
     \/ IsType(args, "blockNumber", "number")

isValidGetTokenMetadataParams(args) ==
  /\ IsObjectNotNull(args)
  /\ IsType(args, "contractAddress", "string")

isValidGetTokensForOwnerParams(args) ==
  /\ IsObjectNotNull(args)
  /\ IsType(args, "owner", "string")
  /\ OptType(args, "pageKey", "string")
  /\ OptType(args, "pageSize", "number")
  /\ OptArray(args, "contractAddresses")

isValidGetNftsForContractParams(args) ==
  /\ IsObjectNotNull(args)
  /\ IsType(args, "contractAddress", "string")
  /\ OptType(args, "pageKey", "string")
  /\ OptType(args, "pageSize", "number")
  /\ OptType(args, "tokenUriTimeoutInMs", "number")
  /\ OptType(args, "withMetadata", "boolean")

isValidGetBlockWithTransactionsParams(args) ==
  /\ IsObjectNotNull(args)
  /\ (Get(args, "blockNumber") # Undef \/ Get(args, "blockHash") # Undef)
  /\ \/ Get(args, "blockNumber") = Undef
     \/ IsType(args, "blockNumber", "string")
     \/ IsType(args, "blockNumber", "number")
  /\ OptType(args, "blockHash", "string")

isValidGetTransactionParams(args) ==
  /\ IsObjectNotNull(args)
  /\ IsType(args, "hash", "string")

isValidResolveEnsParams(args) ==
  /\ IsObjectNotNull(args)
  /\ IsType(args, "name", "string")
  /\ \/ Get(args, "blockTag") = Undef
     \/ IsType(args, "blockTag", "string")
     \/ IsType(args, "blockTag", "number")

isValidLookupAddressParams(args) ==
  /\ IsObjectNotNull(args)
  /\ IsType(args, "address", "string")

isValidEstimateGasPriceParams(args) ==
  /\ IsObjectNotNull(args)
  /\ OptType(args, "maxFeePerGas", "boolean")

isValidSubscribeParams(args) ==
  /\ IsObjectNotNull(args)
  /\ IsType(args, "type", "string")
  /\ OptType(args, "address", "string")
  /\ OptArray(args, "topics")

isValidUnsubscribeParams(args) ==
  /\ IsObjectNotNull(args)
  /\ IsType(args, "subscriptionId", "string")

(***************************************************************************)
(* The CallTool switch: the names it has a case for, and for each the      *)
(* validator, the validation error message and the backend call of its     *)
(* handler.                                                                *)
(***************************************************************************)
DispatchedNames ==
  {"get_nfts_for_owner", "get_nft_metadata", "get_nft_sales",
   "get_contracts_for_owner", "get_floor_price", "get_owners_for_nft",
   "get_transfers_for_contract", "get_transfers_for_owner",
   "get_transaction_receipts", "get_token_metadata", "get_tokens_for_owner",
   "get_nfts_for_contract", "get_block_with_transactions", "get_transaction",
   "resolve_ens", "lookup_address", "estimate_gas_price", "subscribe",
   "unsubscribe"}

\* the validator each handler hands to validateAndCastParams
Validator(name, args) ==
  CASE name = "get_nfts_for_owner" -> isValidGetNftsForOwnerParams(args)
    [] name = "get_nft_metadata" -> isValidGetNftMetadataParams(args)
    [] name = "get_nft_sales" -> isValidGetNftSalesParams(args)
    [] name = "get_contracts_for_owner" -> isValidGetContractsForOwnerParams(args)
    [] name = "get_floor_price" -> isValidGetFloorPriceParams(args)
    [] name = "get_owners_for_nft" -> isValidGetOwnersForNftParams(args)
    [] name = "get_transfers_for_contract" -> isValidGetTransfersForContractParams(args)
    [] name = "get_transfers_for_owner" -> isValidGetTransfersForOwnerParams(args)
    [] name = "get_transaction_receipts" -> isValidGetTransactionReceiptsParams(args)
    [] name = "get_token_metadata" -> isValidGetTokenMetadataParams(args)
    [] name = "get_tokens_for_owner" -> isValidGetTokensForOwnerParams(args)
    [] name = "get_nfts_for_contract" -> isValidGetNftsForContractParams(args)
    [] name = "get_block_with_transactions" -> isValidGetBlockWithTransactionsParams(args)
    [] name = "get_transaction" -> isValidGetTransactionParams(args)
    [] name = "resolve_ens" -> isValidResolveEnsParams(args)
    [] name = "lookup_address" -> isValidLookupAddressParams(args)
    [] name = "estimate_gas_price" -> isValidEstimateGasPriceParams(args)
    [] name = "subscribe" -> isValidSubscribeParams(args)
    [] name = "unsubscribe" -> isValidUnsubscribeParams(args)

\* the errorMessage each handler hands to validateAndCastParams
ErrorMessage(name) ==
  CASE name = "get_nfts_for_owner" -> "Invalid NFTs for owner parameters"
    [] name = "get_nft_metadata" -> "Invalid NFT metadata parameters"
    [] name = "get_nft_sales" -> "Invalid NFT sales parameters"
    [] name = "get_contracts_for_owner" -> "Invalid contracts for owner parameters"
    [] name = "get_floor_price" -> "Invalid floor price parameters"
    [] name = "get_owners_for_nft" -> "Invalid owners for NFT parameters"
    [] name = "get_transfers_for_contract" -> "Invalid transfers for contract parameters"
    [] name = "get_transfers_for_owner" -> "Invalid transfers for owner parameters"
    [] name = "get_transaction_receipts" -> "Invalid transaction receipts parameters"
    [] name = "get_token_metadata" -> "Invalid token metadata parameters"
    [] name = "get_tokens_for_owner" -> "Invalid tokens for owner parameters"
    [] name = "get_nfts_for_contract" -> "Invalid NFTs for contract parameters"
    [] name = "get_block_with_transactions" -> "Invalid block with transactions parameters"
    [] name = "get_transaction" -> "Invalid transaction parameters"
    [] name = "resolve_ens" -> "Invalid ENS parameters"
    [] name = "lookup_address" -> "Invalid lookup address parameters"
    [] name = "estimate_gas_price" -> "Invalid gas price parameters"
    [] name = "subscribe" -> "Invalid subscribe parameters"
    [] name = "unsubscribe" -> "Invalid unsubscribe parameters"

\* the fields of the bag a call hands over
Pick(args, S) == [f \in S |-> Get(args, f)]
\* a call that hands over the whole params object
Whole(args) == [f \in {g \in DOMAIN args : args[g] # Undef} |-> args[f]]

NoCall == [group |-> "", method |-> "", passed |-> [f \in {} |-> Undef]]

\* the backend method a query handler awaits, and the values it passes
BackendCall(name, args) ==
  CASE name = "get_nfts_for_owner" ->
         [group |-> "nft", method |-> "getNftsForOwner", passed |-> Whole(args)]
    [] name = "get_nft_metadata" ->
         [group |-> "nft", method |-> "getNftMetadata",
          passed |-> Pick(args, {"contractAddress", "tokenId"})]
    [] name = "get_nft_sales" ->
         [group |-> "nft", method |-> "getNftSales", passed |-> Whole(args)]
    [] name = "get_contracts_for_owner" ->
         [group |-> "nft", method |-> "getContractsForOwner",
          passed |-> Pick(args, {"owner"})]
    [] name = "get_floor_price" ->
         [group |-> "nft", method |-> "getFloorPrice",
          passed |-> Pick(args, {"contractAddress"})]
    [] name = "get_owners_for_nft" ->
         [group |-> "nft", method |-> "getOwnersForNft",
          passed |-> Pick(args, {"contractAddress", "tokenId"})]
    [] name = "get_transfers_for_contract" ->
         [group |-> "nft", method |-> "getTransfersForContract",
          passed |-> Whole(args)]
    [] name = "get_transfers_for_owner" ->
         [group |-> "nft", method |-> "getTransfersForOwner",
          passed |-> Pick(args, {"owner"})]
    [] name = "get_transaction_receipts" ->
         [group |-> "core", method |-> "getTransactionReceipts",
          passed |-> Whole(args)]
    [] name = "get_token_metadata" ->
         [group |-> "core", method |-> "getTokenMetadata",
          passed |-> Pick(args, {"contractAddress"})]
    [] name = "get_tokens_for_owner" ->
         [group |-> "core", method |-> "getTokensForOwner",
          passed |-> Pick(args, {"owner"})]
    [] name = "get_nfts_for_contract" ->
         [group |-> "nft", method |-> "getNftsForContract", passed |-> Whole(args)]
    [] name = "get_block_with_transactions" ->
         [group |-> "core", method |-> "getBlockWithTransactions",
          passed |->
            [blockTag |->
               IF Truthy(Get(args, "blockNumber")) THEN Get(args, "blockNumber")
               ELSE IF Truthy(Get(args, "blockHash")) THEN Get(args, "blockHash")
               ELSE Str("latest")]]
    [] name = "get_transaction" ->
         [group |-> "core", method |-> "getTransaction",
          passed |-> Pick(args, {"hash"})]
    [] name = "resolve_ens" ->
         [group |-> "core", method |-> "resolveName", passed |-> Pick(args, {"name"})]
    [] name = "lookup_address" ->
         [group |-> "core", method |-> "lookupAddress",
          passed |-> Pick(args, {"address"})]
    [] name = "estimate_gas_price" ->
         [group |-> "core", method |-> "getGasPrice", passed |-> Pick(args, {})]

\* the types handleSubscribe's switch has a case for
SubscribeCases == {"newHeads", "logs", "pendingTransactions"}

\* the ws.on call of handleSubscribe for a type its switch knows
SubscribeCall(args) ==
  CASE Get(args, "type") = Str("newHeads") ->
         [group |-> "ws", method |-> "on", passed |-> [event |-> Str("block")]]
    [] Get(args, "type") = Str("logs") ->
         [group |-> "ws", method |-> "on",
          passed |->
            [method |-> Str("alchemy_filteredNewFullPendingTransactions"),
             addresses |-> IF Truthy(Get(args, "address"))
                             THEN Get(args, "address") ELSE Undef,
             topics |-> Get(args, "topics")]]
    [] Get(args, "type") = Str("pendingTransactions") ->
         [group |-> "ws", method |-> "on", passed |-> [event |-> Str("pending")]]

(***************************************************************************)
(* State.                                                                  *)
(***************************************************************************)
VARIABLES
  apiKey,                  \* whether process.env.ALCHEMY_API_KEY is set
  phase,                   \* "loading", "aborted", "failed", "running", "closing"
                           \* (SIGINT taken, awaiting server.close), "exited"
  handlersRegistered,      \* whether setupToolHandlers has run
  exitStatus,              \* the status the process ended with, "none" while it lives
  activeSubscriptions,     \* the module-level map the SIGINT handler iterates
  thisActiveSubscriptions, \* this.activeSubscriptions: id -> handle, 0 when absent
  live,                    \* the handles whose backend subscription is live
  nextHandle,              \* how many handles ws.on has returned
  cancelCalls,             \* per handle, how often its cancel action was invoked
  teardownCalls,           \* per handle, how often the SIGINT loop invoked its cancel action
  idState,                 \* per id: "never" returned, "active", or "removed" by an unsubscribe
  unsubLog,                \* per id: how the first two unsubscribe requests since the id
                           \* was last returned ended: "ok", "threw" or "notfound"
  inflight,                \* the requests awaiting their backend call
  reply,                   \* the request that settled last, as its caller sees it
  content,                 \* the splitting script: the text read from INPUT_FILE
  idx,                     \* its loop variable i
  chunkIndex,              \* how many chunk files it has written
  written,                 \* the chunk files in order: where the chunk began, its text
  finished                 \* whether its loop has ended

subsVars ==
  <<activeSubscriptions, thisActiveSubscriptions, live, nextHandle, cancelCalls,
    teardownCalls, idState, unsubLog>>
procVars == <<apiKey, handlersRegistered, exitStatus>>
splitVars == <<content, idx, chunkIndex, written, finished>>
serverVars == <<procVars, phase, subsVars, inflight, reply>>
vars == <<serverVars, splitVars>>

Handles == 1..MaxSubs
Slots == 1..MaxInflight
EmptyBag == [f \in {} |-> Undef]

\* a request record before anything happened to it
Blank ==
  [st |-> "none", name |-> "", hasArgs |-> FALSE, args |-> EmptyBag,
   validated |-> FALSE, raised |-> "none", raisedMsg |-> <<>>,
   calls |-> 0, call |-> NoCall, cancels |-> 0,
   outcome |-> "none", code |-> "none", msg |-> <<>>, result |-> Undef,
   prior |-> "n/a"]

NewRequest(name, hasArgs, args) ==
  [Blank EXCEPT !.st = "running", !.name = name, !.hasArgs = hasArgs, !.args = args]

\* throw new MicrosoftMcpError(code, m) / a rejection with message m
Raise(req, code, m) == [req EXCEPT !.raised = code, !.raisedMsg = m]

\* the same handler with the error's message left out of what it throws
CatchAllNoMessage(req) ==
  [req EXCEPT !.st = "done", !.outcome = "error",
              !.code = "InternalError", !.msg = <<"Tool error">>]

\* the catch of the CallTool handler: whatever was thrown is logged and
\* thrown again as InternalError, "Tool error: " + error.message
CatchAll(req) ==
  [req EXCEPT !.st = "done", !.outcome = "error",
              !.code = "InternalError", !.msg = <<"Tool error: ">> \o req.raisedMsg]

\* return { content: [{ type: "text", text: JSON.stringify(result) }] }
Return(req, result) ==
  [req EXCEPT !.st = "done", !.outcome = "result", !.result = result]

validateAndCastParams(req) ==
  IF ~Validator(req.name, req.args)
    THEN Raise(req, "InvalidParams", <<ErrorMessage(req.name)>>)
    ELSE [req EXCEPT !.validated = TRUE]

\* a query handler that starts its backend call before it validates
handleQueryCallFirst(req) ==
  LET c == [req EXCEPT !.calls = @ + 1, !.call = BackendCall(req.name, req.args)]
      v == validateAndCastParams(c)
  IN  IF v.raised # "none" THEN v ELSE [v EXCEPT !.st = "pending"]

\* handleGetNftsForOwner .. handleEstimateGasPrice up to their await:
\* validate, then start the one backend call
handleQuery(req) ==
  LET v == validateAndCastParams(req)
  IN  IF v.raised # "none" THEN v
      ELSE [v EXCEPT !.st = "pending", !.calls = @ + 1,
                     !.call = BackendCall(req.name, req.args)]

Lookup(map, s) == IF s \in Ids THEN map[s] ELSE 0
Entries(map) == {map[s] : s \in Ids} \ {0}
IdStateOf(s) == IF s \in Ids THEN idState[s] ELSE "never"

\* handleSubscribe storing under the id before the switch on the type
handleSubscribeStoreFirst(req) ==
  LET v == validateAndCastParams(req)
      type == Get(req.args, "type")
  IN  IF v.raised # "none"
        THEN /\ reply' = CatchAll(v)
             /\ UNCHANGED subsVars
        ELSE \E subscriptionId \in Ids :
               IF type.v \notin SubscribeCases
                 THEN /\ reply' = CatchAll(Raise(v, "InvalidParams",
                                     <<"Unknown subscription type: ", type.v>>))
                      /\ thisActiveSubscriptions' =
                           [thisActiveSubscriptions EXCEPT ![subscriptionId] = MaxSubs]
                      /\ UNCHANGED <<activeSubscriptions, live, nextHandle, cancelCalls,
                                     teardownCalls, idState, unsubLog>>
                 ELSE /\ nextHandle < MaxSubs
                      /\ nextHandle' = nextHandle + 1
                      /\ live' = live \cup {nextHandle + 1}
                      /\ thisActiveSubscriptions' =
                           [thisActiveSubscriptions EXCEPT ![subscriptionId] = nextHandle + 1]
                      /\ idState' = [idState EXCEPT ![subscriptionId] = "active"]
                      /\ unsubLog' = [unsubLog EXCEPT ![subscriptionId] = <<>>]
                      /\ reply' = Return([v EXCEPT !.calls = @ + 1,
                                                   !.call = SubscribeCall(req.args)],
                                         Str(subscriptionId))
                      /\ UNCHANGED <<activeSubscriptions, cancelCalls, teardownCalls>>

\* handleSubscribe: validate, draw the id, ws.on by type, store the handle
handleSubscribe(req) ==
  LET v == validateAndCastParams(req)
      type == Get(req.args, "type")
  IN  IF v.raised # "none"
        THEN /\ reply' = CatchAll(v)
             /\ UNCHANGED subsVars
        ELSE \E subscriptionId \in Ids :
               IF type.v \notin SubscribeCases
                 THEN /\ reply' = CatchAll(Raise(v, "InvalidParams",
                                     <<"Unknown subscription type: ", type.v>>))
                      /\ UNCHANGED subsVars
                 ELSE /\ nextHandle < MaxSubs
                      /\ nextHandle' = nextHandle + 1
                      /\ live' = live \cup {nextHandle + 1}
                      /\ thisActiveSubscriptions' =
                           [thisActiveSubscriptions EXCEPT ![subscriptionId] = nextHandle + 1]
                      /\ idState' = [idState EXCEPT ![subscriptionId] = "active"]
                      /\ unsubLog' = [unsubLog EXCEPT ![subscriptionId] = <<>>]
                      /\ reply' = Return([v EXCEPT !.calls = @ + 1,
                                                   !.call = SubscribeCall(req.args)],
                                         Str(subscriptionId))
                      /\ UNCHANGED <<activeSubscriptions, cancelCalls, teardownCalls>>

\* the log of unsubscribe requests for id s, with one more outcome; it starts
\* when a Subscribe returns s and keeps the first two outcomes
Logged(s, how) ==
  IF s \in Ids /\ IdStateOf(s) # "never" /\ Len(unsubLog[s]) < 2
    THEN [unsubLog EXCEPT ![s] = Append(@, how)]
    ELSE unsubLog

\* handleUnsubscribe without the delete: the entry stays after a cancel
handleUnsubscribeNoDelete(req) ==
  LET v0 == validateAndCastParams(req)
      s == Get(req.args, "subscriptionId").v
      v == [v0 EXCEPT !.prior = IdStateOf(s)]
      subscription == Lookup(thisActiveSubscriptions, s)
  IN  IF v0.raised # "none"
        THEN /\ reply' = CatchAll(v0)
             /\ UNCHANGED subsVars
        ELSE IF subscription = 0
          THEN /\ reply' = CatchAll(Raise(v, "InvalidParams",
                                          <<"Subscription not found: ", s>>))
               /\ unsubLog' = Logged(s, "notfound")
               /\ UNCHANGED <<activeSubscriptions, thisActiveSubscriptions, live,
                              nextHandle, cancelCalls, teardownCalls, idState>>
          ELSE /\ cancelCalls[subscription] < MaxCancel
               /\ cancelCalls' = [cancelCalls EXCEPT ![subscription] = @ + 1]
               /\ \E thrown \in BOOLEAN :
                    IF thrown
                      THEN /\ reply' = CatchAll(Raise([v EXCEPT !.cancels = @ + 1],
                                                      "Error", <<"cancel failed">>))
                           /\ unsubLog' = Logged(s, "threw")
                           /\ UNCHANGED <<thisActiveSubscriptions, live, idState>>
                      ELSE /\ live' = live \ {subscription}
                           /\ UNCHANGED thisActiveSubscriptions
                           /\ idState' = [idState EXCEPT ![s] = "removed"]
                           /\ unsubLog' = Logged(s, "ok")
                           /\ reply' = Return([v EXCEPT !.cancels = @ + 1], Bool("true"))
               /\ UNCHANGED <<activeSubscriptions, nextHandle, teardownCalls>>

\* handleUnsubscribe: validate, look the id up, cancel, delete
handleUnsubscribe(req) ==
  LET v0 == validateAndCastParams(req)
      s == Get(req.args, "subscriptionId").v
      v == [v0 EXCEPT !.prior = IdStateOf(s)]
      subscription == Lookup(thisActiveSubscriptions, s)
  IN  IF v0.raised # "none"
        THEN /\ reply' = CatchAll(v0)
             /\ UNCHANGED subsVars
        ELSE IF subscription = 0
          THEN /\ reply' = CatchAll(Raise(v, "InvalidParams",
                                          <<"Subscription not found: ", s>>))
               /\ unsubLog' = Logged(s, "notfound")
               /\ UNCHANGED <<activeSubscriptions, thisActiveSubscriptions, live,
                              nextHandle, cancelCalls, teardownCalls, idState>>
          ELSE /\ cancelCalls[subscription] < MaxCancel
               /\ cancelCalls' = [cancelCalls EXCEPT ![subscription] = @ + 1]
               /\ \E thrown \in BOOLEAN :
                    IF thrown
                      THEN /\ reply' = CatchAll(Raise([v EXCEPT !.cancels = @ + 1],
                                                      "Error", <<"cancel failed">>))
                           /\ unsubLog' = Logged(s, "threw")
                           /\ UNCHANGED <<thisActiveSubscriptions, live, idState>>
                      ELSE /\ live' = live \ {subscription}
                           /\ thisActiveSubscriptions' =
                                [thisActiveSubscriptions EXCEPT ![s] = 0]
                           /\ idState' = [idState EXCEPT ![s] = "removed"]
                           /\ unsubLog' = Logged(s, "ok")
                           /\ reply' = Return([v EXCEPT !.cancels = @ + 1], Bool("true"))
               /\ UNCHANGED <<activeSubscriptions, nextHandle, teardownCalls>>

(***************************************************************************)
(* Actions.                                                                *)
(***************************************************************************)
Init ==
  /\ apiKey \in BOOLEAN
  /\ phase = "loading"
  /\ handlersRegistered = FALSE
  /\ exitStatus = "none"
  /\ activeSubscriptions = [s \in Ids |-> 0]
  /\ thisActiveSubscriptions = [s \in Ids |-> 0]
  /\ live = {}
  /\ nextHandle = 0
  /\ cancelCalls = [h \in Handles |-> 0]
  /\ teardownCalls = [h \in Handles |-> 0]
  /\ idState = [s \in Ids |-> "never"]
  /\ unsubLog = [s \in Ids |-> <<>>]
  /\ inflight = [i \in Slots |-> Blank]
  /\ reply = Blank
  /\ content = <<>>
  /\ idx = 0
  /\ chunkIndex = 0
  /\ written = <<>>
  /\ finished = FALSE

\* the module's top level without the API key check
StartupNoKeyCheck ==
  /\ phase = "loading"
  /\ handlersRegistered' = TRUE
  /\ \E listening \in BOOLEAN :
       IF listening
         THEN phase' = "running" /\ UNCHANGED exitStatus
         ELSE phase' = "failed" /\ exitStatus' = "1"
  /\ UNCHANGED <<splitVars, apiKey, subsVars, inflight, reply>>

\* the module's top level: the API key check, then the constructor (handlers
\* and SIGINT hook), then start(); a rejected start() exits with status 1
Startup ==
  /\ phase = "loading"
  /\ IF ~apiKey
       THEN /\ phase' = "aborted"
            /\ exitStatus' = "1"
            /\ UNCHANGED handlersRegistered
       ELSE /\ handlersRegistered' = TRUE
            /\ \E listening \in BOOLEAN :
                 IF listening
                   THEN phase' = "running" /\ UNCHANGED exitStatus
                   ELSE phase' = "failed" /\ exitStatus' = "1"
  /\ UNCHANGED <<splitVars, apiKey, subsVars, inflight, reply>>

\* the CallTool request handler, up to its first await or to its end
CallTool(name, hasArgs, args) ==
  /\ handlersRegistered
  /\ phase = "running"
  /\ UNCHANGED <<splitVars, procVars, phase>>
  /\ LET req == NewRequest(name, hasArgs, args)
     IN  IF ~hasArgs
           THEN /\ reply' = CatchAll(Raise(req, "InvalidParams", <<"Missing arguments">>))
                /\ UNCHANGED <<subsVars, inflight>>
         ELSE IF name \notin DispatchedNames
           THEN /\ reply' = CatchAll(Raise(req, "InvalidParams",
                                           <<"Unknown tool: ", name>>))
                /\ UNCHANGED <<subsVars, inflight>>
         ELSE IF name = "subscribe"
           THEN handleSubscribe(req) /\ UNCHANGED inflight
         ELSE IF name = "unsubscribe"
           THEN handleUnsubscribe(req) /\ UNCHANGED inflight
         ELSE LET q == handleQuery(req)
              IN  IF q.st = "pending"
                    THEN /\ \E i \in Slots :
                              /\ inflight[i].st = "none"
                              /\ \A j \in 1..(i - 1) : inflight[j].st # "none"
                              /\ inflight' = [inflight EXCEPT ![i] = q]
                         /\ UNCHANGED <<subsVars, reply>>
                    ELSE /\ reply' = CatchAll(q)
                         /\ UNCHANGED <<subsVars, inflight>>

\* the awaited backend call resolves: the handler returns the result
BackendResolve(i) ==
  /\ phase # "exited"
  /\ inflight[i].st = "pending"
  /\ reply' = Return(inflight[i], Str("value"))
  /\ inflight' = [inflight EXCEPT ![i] = Blank]
  /\ UNCHANGED <<splitVars, procVars, phase, subsVars>>

\* a rejected backend call is issued again
BackendRejectRetry(i, m) ==
  /\ phase # "exited"
  /\ inflight[i].st = "pending"
  /\ inflight' = [inflight EXCEPT ![i].calls = @ + 1]
  /\ UNCHANGED <<splitVars, procVars, phase, subsVars, reply>>

\* the awaited backend call rejects with message m: the catch takes it
BackendReject(i, m) ==
  /\ phase # "exited"
  /\ inflight[i].st = "pending"
  /\ reply' = CatchAll(Raise(inflight[i], "Error", <<m>>))
  /\ inflight' = [inflight EXCEPT ![i] = Blank]
  /\ UNCHANGED <<splitVars, procVars, phase, subsVars>>

\* the SIGINT handler up to its await: the cleanup loop over the
\* module-level activeSubscriptions, each cancel in its own try/catch
SigInt ==
  /\ phase = "running"
  /\ phase' = "closing"
  /\ \E failed \in SUBSET Entries(activeSubscriptions) :
       /\ cancelCalls' = [h \in Handles |->
                            IF h \in Entries(activeSubscriptions)
                              THEN cancelCalls[h] + 1 ELSE cancelCalls[h]]
       /\ teardownCalls' = [h \in Handles |->
                              IF h \in Entries(activeSubscriptions)
                                THEN teardownCalls[h] + 1 ELSE teardownCalls[h]]
       /\ live' = live \ (Entries(activeSubscriptions) \ failed)
  /\ UNCHANGED <<splitVars, procVars, activeSubscriptions, thisActiveSubscriptions, nextHandle,
                 idState, unsubLog, inflight, reply>>

\* process.exit(1) in place of process.exit(0)
ExitStatusOne ==
  /\ phase = "closing"
  /\ phase' = "exited"
  /\ exitStatus' = "1"
  /\ UNCHANGED <<splitVars, apiKey, handlersRegistered, subsVars, inflight, reply>>

\* server.close() resolved: process.exit(0)
Exit ==
  /\ phase = "closing"
  /\ phase' = "exited"
  /\ exitStatus' = "0"
  /\ UNCHANGED <<splitVars, apiKey, handlersRegistered, subsVars, inflight, reply>>

(***************************************************************************)
(* The requests the transport delivers.                                    *)
(***************************************************************************)
Names == ListedNames \cup {UnknownName}
Props(name) == IF name \in ListedNames THEN Descriptor(name).props ELSE EmptyBag
Required(name) == IF name \in ListedNames THEN Descriptor(name).required ELSE {}
Fields(name) == DOMAIN Props(name)

\* a value of the type the descriptor declares for the field
Good(name, f) ==
  CASE f = "type" /\ name = "subscribe" -> Str("newHeads")
    [] f = "subscriptionId" -> Str(CHOOSE s \in Ids : TRUE)
    [] OTHER ->
         CASE Props(name)[f] = "string" -> Str("0xabc")
           [] Props(name)[f] = "number" -> Num("1")
           [] Props(name)[f] = "boolean" -> Bool("true")
           [] Props(name)[f] = "array" -> Arr

AllCandidates(name) ==
  GenericValues \cup {Str(t) : t \in SubscriptionEnum \cup {OtherType}}
    \cup {Str(s) : s \in Ids}

\* the values a field of an enumerated bag may take
Candidates(name, f) ==
  GenericValues
    \cup (IF f = "type" /\ name = "subscribe"
            THEN {Str(t) : t \in SubscriptionEnum \cup {OtherType}} ELSE {})
    \cup (IF f = "subscriptionId" THEN {Str(s) : s \in Ids} ELSE {})

\* every field present with a value of its declared type
BaseFull(name) == [f \in Fields(name) |-> Good(name, f)]
\* only the required fields present
BaseMin(name) ==
  [f \in Fields(name) |-> IF f \in Required(name) THEN Good(name, f) ELSE Undef]

RECURSIVE Dev(_, _, _)
\* the bags that differ from base in at most n fields
Dev(name, base, n) ==
  IF n = 0 THEN {base}
  ELSE LET prev == Dev(name, base, n - 1)
       IN  prev \cup {[b EXCEPT ![f] = x] :
                        <<b, f, x>> \in {<<b, f, x>> \in
                            prev \X Fields(name) \X AllCandidates(name) :
                              x \in Candidates(name, f)}}

Bags(name) == Dev(name, BaseFull(name), MaxDev) \cup Dev(name, BaseMin(name), MaxDev)

\* the tools a session of the lifecycle specification invokes, with the
\* minimal bag and the bags that omit or re-choose one required field
SessionNames ==
  {"subscribe", "unsubscribe", "get_nft_metadata", "get_block_number", UnknownName}
SessionBags(name) ==
  {BaseMin(name)} \cup
    {[BaseMin(name) EXCEPT ![f] = x] :
       <<f, x>> \in {<<f, x>> \in Required(name) \X AllCandidates(name) :
                       x \in (Candidates(name, f) \ GenericValues) \cup {Undef}}}

Next ==
  \/ Startup
  \/ \E name \in SessionNames : \E args \in SessionBags(name) :
       CallTool(name, TRUE, args)
  \/ \E name \in SessionNames : CallTool(name, FALSE, EmptyBag)
  \/ \E i \in Slots : BackendResolve(i)
  \/ \E i \in Slots, m \in BackendMsgs : BackendReject(i, m)
  \/ SigInt
  \/ Exit

\* the server over its life: any sequence of requests, backend outcomes and
\* an interrupt
Spec == Init /\ [][Next]_vars

\* no request has been taken yet
NoRequestYet ==
  /\ reply.st = "none"
  /\ \A i \in Slots : inflight[i].st = "none"

NextDispatch ==
  \/ Startup
  \/ \E name \in Names : \E args \in Bags(name) :
       NoRequestYet /\ CallTool(name, TRUE, args)
  \/ \E name \in Names : NoRequestYet /\ CallTool(name, FALSE, EmptyBag)
  \/ \E i \in Slots : BackendResolve(i)
  \/ \E i \in Slots, m \in BackendMsgs : BackendReject(i, m)

\* one request of any tool with any enumerated bag, served by a fresh server
SpecDispatch == Init /\ [][NextDispatch]_vars

(***************************************************************************)
(* Properties.                                                             *)
(***************************************************************************)
\* the error classes of the specification as codes of the protocol
InvalidOperation == "MethodNotFound"
InvalidParameters == "InvalidParams"
BackendError == "InternalError"

\* the requests of a state: the one settled last and those awaiting the backend
Requests == {q \in {reply} \cup {inflight[i] : i \in Slots} : q.st # "none"}

\* the bag satisfies the tool's descriptor: required fields present, present
\* fields of the declared type, exactly one oneOf alternative present
HasDeclaredType(name, args, f) ==
  \/ Get(args, f) = Undef
  \/ IF Props(name)[f] = "array" THEN IsArray(Get(args, f))
     ELSE Typeof(Get(args, f)) = Props(name)[f]
SatisfiesDescriptor(name, args) ==
  /\ \A f \in Required(name) : Get(args, f) # Undef
  /\ \A f \in Fields(name) : HasDeclaredType(name, args, f)
  /\ \/ Descriptor(name).oneOf = {}
     \/ Cardinality({alt \in Descriptor(name).oneOf :
                       \A f \in alt : Get(args, f) # Undef}) = 1

\* C1: a request that fails lookup or validation (it raised InvalidParams, or
\* validateAndCastParams never accepted its bag) has caused no call of a
\* backend client method and no cancel action.
C1_ValidationPrecedesBackend ==
  \A q \in Requests :
    (q.raised = "InvalidParams" \/ ~q.validated) => (q.calls = 0 /\ q.cancels = 0)

C1_Witness ==
  /\ reply.st = "done"
  /\ reply.hasArgs
  /\ reply.name = "get_nft_metadata"
  /\ ~reply.validated
  /\ reply.raised = "InvalidParams"
  /\ reply.calls = 0

\* C2: a request whose tool name is absent from the table fails with an
\* error its caller sees classified as InvalidOperation.
C2_UnknownToolIsInvalidOperation ==
  (reply.st = "done" /\ reply.hasArgs /\ reply.name \notin ListedNames)
    => (reply.outcome = "error" /\ reply.code = InvalidOperation)

\* C3: a request of a listed tool whose bag omits one of the tool's required
\* fields fails with an error its caller sees classified as InvalidParameters.
C3_MissingRequiredIsInvalidParameters ==
  (/\ reply.st = "done"
   /\ reply.hasArgs
   /\ reply.name \in ListedNames
   /\ \E f \in Required(reply.name) : Get(reply.args, f) = Undef)
    => (reply.outcome = "error" /\ reply.code = InvalidParameters)

\* C4: a request of a listed tool whose bag satisfies the tool's descriptor
\* passes validation: its bag is accepted and it is not rejected with
\* InvalidParams for its shape.
C4_WellTypedPassesValidation ==
  \A q \in Requests :
    (q.hasArgs /\ q.name \in ListedNames /\ SatisfiesDescriptor(q.name, q.args))
      => q.validated

\* C5: the first Unsubscribe of an id that a Subscribe returned succeeds
\* (unless the cancel action itself fails), and a later Unsubscribe of the
\* same id, with no Subscribe returning it in between, fails with
\* InvalidParameters.
C5_UnsubscribeOnceThenInvalidParameters ==
  (reply.st = "done" /\ reply.name = "unsubscribe" /\ reply.validated)
    => /\ (reply.prior = "active" /\ reply.raised # "Error")
            => reply.outcome = "result"
       /\ reply.prior = "removed"
            => (reply.outcome = "error" /\ reply.code = InvalidParameters)

\* C6: an Unsubscribe of an id that no Subscribe has returned fails with an
\* error its caller sees classified as InvalidParameters, and invokes no
\* cancel action.
C6_UnknownIdIsInvalidParameters ==
  (reply.st = "done" /\ reply.name = "unsubscribe" /\ reply.validated
     /\ reply.prior = "never")
    => (reply.outcome = "error" /\ reply.code = InvalidParameters
          /\ reply.cancels = 0)

\* C7: when the backend call of a validated request rejects, the caller
\* receives a classified error, of class BackendError, whose message
\* carries the message of the rejection.
C7_BackendRejectionIsBackendError ==
  (reply.st = "done" /\ reply.validated /\ reply.calls = 1 /\ reply.raised = "Error")
    => /\ reply.outcome = "error"
       /\ reply.code = BackendError
       /\ \E k \in DOMAIN reply.msg : reply.msg[k] = reply.raisedMsg[1]

C7_Witness ==
  /\ reply.st = "done"
  /\ reply.name = "get_nft_metadata"
  /\ reply.validated
  /\ reply.calls = 1
  /\ reply.raised = "Error"
  /\ reply.raisedMsg = <<"timeout">>
  /\ reply.code = BackendError

\* C8: the registry and the backend agree: every registry entry is the
\* handle of a live backend subscription, no two entries share a handle, and
\* every live backend subscription has a registry entry.
C8_RegistryMatchesBackend ==
  /\ \A s \in Ids :
       thisActiveSubscriptions[s] # 0 => thisActiveSubscriptions[s] \in live
  /\ \A s1, s2 \in Ids :
       (thisActiveSubscriptions[s1] # 0
          /\ thisActiveSubscriptions[s1] = thisActiveSubscriptions[s2]) => s1 = s2
  /\ \A h \in live : \E s \in Ids : thisActiveSubscriptions[s] = h

\* C9: when the process has exited after an interrupt, the teardown has
\* invoked the cancel action of every subscription that Subscribe created
\* and no Unsubscribe removed.
C9_TeardownCancelsEverySubscription ==
  phase = "exited"
    => \A h \in 1..nextHandle : h \in live => teardownCalls[h] >= 1

SpecLive == Spec /\ WF_vars(Exit)

\* C11: every interrupt signal eventually leads to process exit with status
\* 0, and the process exits that way only from the state the teardown loop
\* leaves behind
C11_InterruptLeadsToExitZero ==
  /\ (phase = "closing") ~> (phase = "exited" /\ exitStatus = "0")
  /\ [][phase' = "exited" /\ phase # "exited" => phase = "closing"]_vars

\* an interrupted server that had a subscription and a settled request has
\* exited with status 0
C11_Witness ==
  /\ phase = "exited"
  /\ exitStatus = "0"
  /\ nextHandle > 0
  /\ reply.st = "done"

\* C12: each request causes at most one backend call (an alchemy query, a
\* ws.on or a cancel action), and a settled request that made its call failed
\* exactly when that call failed: nothing is retried, nothing is called twice
C12_AtMostOneBackendCall ==
  \A q \in Requests :
    /\ q.calls + q.cancels <= 1
    /\ q.st = "done" /\ q.calls + q.cancels = 1
         => /\ q.outcome = "error" <=> q.raised = "Error"
            /\ q.outcome = "result" <=> q.raised = "none"

\* a request whose single backend call rejected has settled as an error
C12_Witness ==
  /\ reply.st = "done"
  /\ reply.calls = 1
  /\ reply.raised = "Error"
  /\ reply.outcome = "error"

\* C13: a Subscribe never stores its handle under an id that is already a key
\* of the registry: no stored handle is replaced by another and every
\* insertion makes the registry one entry larger
C13_SubscribeStoresUnderFreshId ==
  [][\A s \in Ids :
       thisActiveSubscriptions'[s] # thisActiveSubscriptions[s]
         /\ thisActiveSubscriptions'[s] # 0
       => /\ thisActiveSubscriptions[s] = 0
          /\ Cardinality({k \in Ids : thisActiveSubscriptions'[k] # 0})
               = Cardinality({k \in Ids : thisActiveSubscriptions[k] # 0}) + 1]_vars

\* the ids for which two unsubscribe requests have been served since the id
\* was last returned by a Subscribe
TwiceUnsubscribed == {s \in Ids : Len(unsubLog[s]) = 2}

\* C14 as stated: two Unsubscribe requests for the same registered id end in
\* exactly one success, exactly one failure and exactly one invocation of the
\* cancel action
C14_TwoUnsubscribesOneSuccessOneCancel ==
  \A s \in TwiceUnsubscribed :
    /\ unsubLog[s][1] = "ok"
    /\ unsubLog[s][2] = "notfound"

\* C14, amended: the two requests are served one after the other, the first
\* one finds the entry and invokes its cancel action; when that cancel
\* action returns, the first request succeeds and the second fails without
\* invoking the cancel action (one success, one failure, one invocation);
\* when it throws, the first request fails, the entry stays and the second
\* request invokes the cancel action again
C14_TwoUnsubscribesSerialised ==
  \A s \in TwiceUnsubscribed :
    /\ unsubLog[s][1] \in {"ok", "threw"}
    /\ unsubLog[s][1] = "ok" => unsubLog[s][2] = "notfound"
    /\ unsubLog[s][1] = "threw" => unsubLog[s][2] \in {"ok", "threw"}

\* two unsubscribe requests for one registered id were served: the first
\* succeeded, the second found nothing
C14_Witness ==
  \E s \in Ids : unsubLog[s] = <<"ok", "notfound">>

(***************************************************************************)
(* The listed tools against the dispatched ones, startup.                  *)
(***************************************************************************)
\* the request was turned away by the switch's default case
RejectedAsUnknown(q) ==
  /\ q.raisedMsg # <<>>
  /\ q.raisedMsg[1] = "Unknown tool: "

\* C15: the names ListTools returns are the names CallTool resolves: a
\* request with arguments is rejected as an unknown tool exactly when its
\* name is not listed
C15_ListedEqualsDispatched ==
  \A q \in Requests :
    q.hasArgs => (RejectedAsUnknown(q) <=> q.name \notin ListedNames)

\* C16: when the API key is missing at startup the process aborts before any
\* request handler is registered and before any request is served
C16_MissingKeyAbortsBeforeServing ==
  ~apiKey =>
    /\ phase \in {"loading", "aborted"}
    /\ ~handlersRegistered
    /\ Requests = {}

\* the process has aborted at the API key check
C16_Witness ==
  /\ ~apiKey
  /\ phase = "aborted"
  /\ exitStatus = "1"

(***************************************************************************)
(* Descriptors against handlers.                                           *)
(***************************************************************************)
\* C17: a validated subscribe request yields a subscription id exactly when
\* its type is one of the types the subscribe descriptor advertises
C17_SubscribeAcceptsAdvertisedTypes ==
  \A q \in Requests :
    q.name = "subscribe" /\ q.validated /\ q.st = "done"
      => (q.outcome = "result" <=> Get(q.args, "type").v \in SubscriptionEnum)

\* the key under which a handler hands field f to its backend method
PassedAs(name, f) ==
  IF name = "get_block_with_transactions" THEN "blockTag" ELSE f

\* the handler passed the field's value on to the backend
Included(q, f) ==
  /\ PassedAs(q.name, f) \in DOMAIN q.call.passed
  /\ q.call.passed[PassedAs(q.name, f)] = Get(q.args, f)

\* C18: for every query whose bag satisfies the descriptor and passed
\* validation, each declared field that is present is among the values passed
\* to the backend call
C18_ValidatedFieldsReachBackend ==
  \A q \in Requests :
    /\ q.calls = 1
    /\ q.name \notin {"subscribe", "unsubscribe"}
    /\ SatisfiesDescriptor(q.name, q.args)
    => \A f \in Fields(q.name) : Get(q.args, f) # Undef => Included(q, f)

\* C19: for every dispatched tool, a bag passes the tool's validator exactly
\* when it satisfies the tool's descriptor: required fields present, exactly
\* one oneOf alternative present, present fields of their declared types
C19_ValidatorMatchesDescriptor ==
  \A q \in Requests :
    q.hasArgs /\ q.name \in DispatchedNames
      => (q.validated <=> SatisfiesDescriptor(q.name, q.args))

\* C20: for every validated get_block_with_transactions request the block
\* tag passed to the backend is the supplied blockNumber when one is present
\* (0 and the empty string included), otherwise the supplied blockHash, and
\* never "latest"
C20_BlockTagIsSuppliedValue ==
  \A q \in Requests :
    q.name = "get_block_with_transactions" /\ q.calls = 1
      => /\ q.call.passed["blockTag"] =
              IF Get(q.args, "blockNumber") # Undef
                THEN Get(q.args, "blockNumber") ELSE Get(q.args, "blockHash")
         /\ q.call.passed["blockTag"] # Str("latest")

(***************************************************************************)
(* Frame of failed requests, cancel invocations per handle.                *)
(***************************************************************************)
\* C21: a request that ends in an error leaves the registry as it was: the
\* registry changes only in a step that settles a subscribe or an
\* unsubscribe request with a result, and in no step that takes a query
C21_ErrorsLeaveRegistryUnchanged ==
  [][thisActiveSubscriptions' # thisActiveSubscriptions
       => /\ reply'.st = "done"
          /\ reply'.outcome = "result"
          /\ reply'.name \in {"subscribe", "unsubscribe"}
          /\ inflight' = inflight]_vars

\* an unsubscribe whose cancel action threw has failed and its entry is
\* still registered
C21_Witness ==
  /\ reply.st = "done"
  /\ reply.name = "unsubscribe"
  /\ reply.outcome = "error"
  /\ reply.cancels = 1
  /\ Lookup(thisActiveSubscriptions, Get(reply.args, "subscriptionId").v) # 0

\* C22 as stated: the cancel action of a handle is invoked at most once
C22_CancelAtMostOnce ==
  \A h \in Handles : cancelCalls[h] <= 1

\* C22, amended: a cancel action is invoked only while its backend
\* subscription is live, and a subscription stops being live only in a step
\* that invokes its cancel action: once the cancel action has returned it is
\* never invoked again, it is invoked again only after it threw
C22_CancelOnlyWhileLive ==
  [][\A h \in Handles :
       /\ cancelCalls'[h] # cancelCalls[h]
            => h \in live /\ cancelCalls'[h] = cancelCalls[h] + 1
       /\ h \in live /\ h \notin live' => cancelCalls'[h] = cancelCalls[h] + 1]_vars

\* a cancel action that threw at first was invoked again and returned
C22_Witness ==
  \E h \in Handles :
    /\ cancelCalls[h] = 2
    /\ h <= nextHandle
    /\ h \notin live

(***************************************************************************)
(* The file-splitting script.  The script fixes CHUNK_SIZE at 100000; the  *)
(* model takes a small chunk size and every text over a two-character      *)
(* alphabet up to MaxLen characters, so that chunks with and without a     *)
(* newline, full and partial, all occur.                                   *)
(***************************************************************************)
\* characters per chunk
CHUNK_SIZE == 4
\* the longest input text
MaxLen == 6
\* how many chunk files a run may write
MaxChunks == 8

Newline == "\n"
Chars == {"a", Newline}
Texts == UNION {[1..n -> Chars] : n \in 0..MaxLen}

Min(a, b) == IF a < b THEN a ELSE b

\* String.prototype.slice for 0 <= from: the characters at from .. to - 1
slice(s, from, to) == SubSeq(s, from + 1, Min(to, Len(s)))

\* String.prototype.lastIndexOf for one character: -1 when it does not occur
lastIndexOf(s, c) ==
  IF \E k \in 1..Len(s) : s[k] = c
    THEN (CHOOSE k \in 1..Len(s) :
            s[k] = c /\ \A j \in (k + 1)..Len(s) : s[j] # c) - 1
    ELSE -1

\* the cut one character late, behind the newline
endIndexAfterNewline(chunk) ==
  IF lastIndexOf(chunk, Newline) = -1 THEN Len(chunk)
  ELSE lastIndexOf(chunk, Newline) + 1

\* where the chunk is cut: at its last newline, at its end when it has none
endIndex(chunk) ==
  IF lastIndexOf(chunk, Newline) = -1 THEN Len(chunk)
  ELSE lastIndexOf(chunk, Newline)

\* the server is not part of this program: its state stays as constructed
ServerIdle ==
  /\ apiKey = FALSE
  /\ phase = "loading"
  /\ handlersRegistered = FALSE
  /\ exitStatus = "none"
  /\ activeSubscriptions = [s \in Ids |-> 0]
  /\ thisActiveSubscriptions = [s \in Ids |-> 0]
  /\ live = {}
  /\ nextHandle = 0
  /\ cancelCalls = [h \in Handles |-> 0]
  /\ teardownCalls = [h \in Handles |-> 0]
  /\ idState = [s \in Ids |-> "never"]
  /\ unsubLog = [s \in Ids |-> <<>>]
  /\ inflight = [j \in Slots |-> Blank]
  /\ reply = Blank

\* the script has read its input file
InitSplit ==
  /\ ServerIdle
  /\ content \in Texts
  /\ idx = 0
  /\ chunkIndex = 0
  /\ written = <<>>
  /\ finished = FALSE

\* one iteration of the loop, its i += CHUNK_SIZE included
SplitChunk ==
  /\ ~finished
  /\ idx < Len(content)
  /\ chunkIndex < MaxChunks
  /\ LET chunk == slice(content, idx, idx + CHUNK_SIZE)
         chunkContent == slice(chunk, 0, endIndex(chunk))
     IN  /\ written' = Append(written, [from |-> idx, text |-> chunkContent])
         /\ idx' = (idx - (Len(chunk) - endIndex(chunk))) + CHUNK_SIZE
  /\ chunkIndex' = chunkIndex + 1
  /\ UNCHANGED <<content, finished, serverVars>>

\* the loop condition fails: "Split complete!"
SplitComplete ==
  /\ ~finished
  /\ idx >= Len(content)
  /\ finished' = TRUE
  /\ UNCHANGED <<content, idx, chunkIndex, written, serverVars>>

NextSplit == SplitChunk \/ SplitComplete

\* one run of the script on any text
SpecSplit == InitSplit /\ [][NextSplit]_vars

\* the positions of the input a written chunk holds, and where chunks end
Positions == 0..(Len(content) - 1)
ChunkEnd(k) == written[k].from + Len(written[k].text)
Covered == {p \in Positions : \E k \in DOMAIN written : written[k].from <= p /\ p < ChunkEnd(k)}

\* C23: the script loses no content: when it has ended, the chunks are pieces
\* of the input, taken in order without overlap, and every character of the
\* input is in some chunk except a newline at which a chunk was cut
C23_NoContentLost ==
  finished =>
    /\ \A k \in DOMAIN written :
         written[k].text = SubSeq(content, written[k].from + 1, ChunkEnd(k))
    /\ \A k \in 1..(Len(written) - 1) : written[k + 1].from >= ChunkEnd(k)
    /\ \A p \in Positions \ Covered :
         /\ content[p + 1] = Newline
         /\ \E k \in DOMAIN written : ChunkEnd(k) = p

\* C24: the script terminates: every iteration of the loop leaves the loop
\* index strictly larger than it found it
C24_LoopIndexAdvances ==
  [][chunkIndex' # chunkIndex => idx' > idx]_vars

\* the input has a newline, and the chunk is cut at the chunk's last one
CutAtNewline(k) ==
  /\ ChunkEnd(k) < Len(content)
  /\ content[ChunkEnd(k) + 1] = Newline

====
